---- MODULE Spec2Model ----
(***************************************************************************)
(* State-machine model of the request protection layer of src/app.py:      *)
(* query validation, per-client sliding-window rate limiting with          *)
(* temporary blocks, per-query abuse throttling, the TTL result cache and   *)
(* the upstream fetch, as driven by the index and category routes.         *)
(*                                                                         *)
(* Text is modelled as a sequence of one-character strings, time as whole   *)
(* seconds read from a non-decreasing clock.  The routes run one request   *)
(* at a time; threads holds the calls of is_rate_limited that worker       *)
(* threads run statement by statement, and history what those calls        *)
(* returned.                                                               *)
(***************************************************************************)
EXTENDS Integers, Sequences, FiniteSets, TLC

VARIABLES clock, request_log, blocked_ips, query_counter, cache, last,
          threads, history

vars == <<clock, request_log, blocked_ips, query_counter, cache, last,
          threads, history>>

-----------------------------------------------------------------------------
(* Program constants (src/app.py:36-39, 146).                              *)

RATE_LIMIT == 10

WINDOW_SIZE == 60

BLOCK_TIME == 900

CACHE_TTL == 1200

ABUSE_WINDOW == 3600

ABUSE_LIMIT == 20

MIN_QUERY_LEN == 3

MAX_QUERY_LEN == 100

-----------------------------------------------------------------------------
(* Text helpers: str.strip(), str.lower(), `in`, str.join.                 *)

Whitespace == {" ", "\t", "\n"}

UpperChars == <<"A","B","C","D","E","F","G","H","I","J","K","L","M",
                "N","O","P","Q","R","S","T","U","V","W","X","Y","Z">>

LowerChars == <<"a","b","c","d","e","f","g","h","i","j","k","l","m",
                "n","o","p","q","r","s","t","u","v","w","x","y","z">>

LowerChar(c) ==
    IF \E i \in 1..Len(UpperChars) : UpperChars[i] = c
    THEN LowerChars[CHOOSE i \in 1..Len(UpperChars) : UpperChars[i] = c]
    ELSE c

Lower(s) == [i \in 1..Len(s) |-> LowerChar(s[i])]

RECURSIVE LStrip(_)
LStrip(s) ==
    IF s # <<>> /\ Head(s) \in Whitespace THEN LStrip(Tail(s)) ELSE s

RECURSIVE RStrip(_)
RStrip(s) ==
    IF s # <<>> /\ s[Len(s)] \in Whitespace
    THEN RStrip(SubSeq(s, 1, Len(s) - 1))
    ELSE s

Strip(s) == RStrip(LStrip(s))

Contains(s, p) ==
    \E i \in 0..(Len(s) - Len(p)) : SubSeq(s, i + 1, i + Len(p)) = p

StartsWith(s, p) == Len(s) >= Len(p) /\ SubSeq(s, 1, Len(p)) = p

RECURSIVE Join(_, _)
Join(sep, parts) ==
    IF parts = <<>> THEN <<>>
    ELSE IF Len(parts) = 1 THEN parts[1]
    ELSE parts[1] \o sep \o Join(sep, Tail(parts))

Rep(c, n) == [i \in 1..n |-> c]

(* dict.get(key, default) and defaultdict access.                          *)
Get(d, k, default) == IF k \in DOMAIN d THEN d[k] ELSE default

Put(d, k, v) == [x \in DOMAIN d \cup {k} |-> IF x = k THEN v ELSE d[x]]

Del(d, k) == [x \in DOMAIN d \ {k} |-> d[x]]

-----------------------------------------------------------------------------
(* is_valid_query (src/app.py:96-121).                                     *)

blocked_patterns ==
    << <<"<","s","c","r","i","p","t">>,
       <<"\"">>,
       <<";">>,
       <<"-","-">>,
       <<"/","*">>,
       <<"*","/">>,
       <<" ","o","r"," ">>,
       <<" ","a","n","d"," ">> >>

(* Variant: the denylist is matched against the text as typed.              *)
is_valid_query_as_typed(q) ==
    IF q = <<>> THEN FALSE
    ELSE LET s == Strip(q)
         IN  IF Len(s) < MIN_QUERY_LEN \/ Len(s) > MAX_QUERY_LEN THEN FALSE
             ELSE ~ \E i \in 1..Len(blocked_patterns) :
                        Contains(s, blocked_patterns[i])

is_valid_query(q) ==
    IF q = <<>> THEN FALSE
    ELSE LET s == Strip(q)
             lower_q == Lower(s)
         IN  IF Len(s) < MIN_QUERY_LEN \/ Len(s) > MAX_QUERY_LEN THEN FALSE
             ELSE ~ \E i \in 1..Len(blocked_patterns) :
                        Contains(lower_q, blocked_patterns[i])

-----------------------------------------------------------------------------
(* get_client_ip (src/app.py:67-72).  A request carries the two proxy       *)
(* headers (empty text when absent) and the connection address; the         *)
(* forwarded-for header is given as its comma-separated entries.            *)

get_client_ip(req) ==
    IF req.cf # "" THEN req.cf
    ELSE IF req.xff # <<>> THEN req.xff[1]
    ELSE req.remote

-----------------------------------------------------------------------------
(* is_rate_limited (src/app.py:74-91).  The operator returns the verdict    *)
(* together with the two maps as the call leaves them.                      *)

(* Variant: the block is still honoured at the instant it ends.             *)
BlockActiveInclusive(bl, ip, now) == ip \in DOMAIN bl /\ now <= bl[ip]

BlockActive(bl, ip, now) == ip \in DOMAIN bl /\ now < bl[ip]

(* Variant: a request made during a block restarts the block.               *)
WhileBlockedExtending(ip, now, rl, bl) ==
    [limited |-> TRUE, request_log |-> rl,
     blocked_ips |-> Put(bl, ip, now + BLOCK_TIME),
     log |-> <<>>, seen_block |-> bl[ip]]

WhileBlocked(ip, now, rl, bl) ==
    [limited |-> TRUE, request_log |-> rl, blocked_ips |-> bl,
     log |-> <<>>, seen_block |-> bl[ip]]

(* Variant: a timestamp exactly WINDOW_SIZE old is kept.                     *)
PruneWindowInclusive(log, now) ==
    SelectSeq(log, LAMBDA t : now - t <= WINDOW_SIZE)

PruneWindow(log, now) == SelectSeq(log, LAMBDA t : now - t < WINDOW_SIZE)

(* Variant: the threshold test is > instead of >= .                         *)
OverLimitStrict(log) == Len(log) > RATE_LIMIT

OverLimit(log) == Len(log) >= RATE_LIMIT

(* Variant: every call prunes the windows of all clients.                    *)
is_rate_limited_pruning_all(ip, now, rl, bl) ==
    LET all == [k \in DOMAIN rl |-> PruneWindow(rl[k], now)]
    IN  IF BlockActive(bl, ip, now)
        THEN WhileBlocked(ip, now, all, bl)
        ELSE LET bl1    == IF ip \in DOMAIN bl THEN Del(bl, ip) ELSE bl
                 pruned == Get(all, ip, <<>>)
             IN  IF OverLimit(pruned)
                 THEN [limited |-> TRUE,
                       request_log |-> Put(all, ip, pruned),
                       blocked_ips |-> Put(bl1, ip, now + BLOCK_TIME),
                       log |-> <<"RATE_LIMIT_BLOCK">>,
                       seen_block |-> Get(bl, ip, -1)]
                 ELSE [limited |-> FALSE,
                       request_log |-> Put(all, ip, Append(pruned, now)),
                       blocked_ips |-> bl1,
                       log |-> <<>>,
                       seen_block |-> Get(bl, ip, -1)]

(* Variant: an expired block entry is not removed.                          *)
is_rate_limited_keeping_expired(ip, now, rl, bl) ==
    IF BlockActive(bl, ip, now)
    THEN WhileBlocked(ip, now, rl, bl)
    ELSE LET pruned == PruneWindow(Get(rl, ip, <<>>), now)
         IN  IF OverLimit(pruned)
             THEN [limited |-> TRUE,
                   request_log |-> Put(rl, ip, pruned),
                   blocked_ips |-> Put(bl, ip, now + BLOCK_TIME),
                   log |-> <<"RATE_LIMIT_BLOCK">>,
                   seen_block |-> Get(bl, ip, -1)]
             ELSE [limited |-> FALSE,
                   request_log |-> Put(rl, ip, Append(pruned, now)),
                   blocked_ips |-> bl,
                   log |-> <<>>,
                   seen_block |-> Get(bl, ip, -1)]

is_rate_limited(ip, now, rl, bl) ==
    IF BlockActive(bl, ip, now)
    THEN WhileBlocked(ip, now, rl, bl)
    ELSE LET bl1    == IF ip \in DOMAIN bl THEN Del(bl, ip) ELSE bl
             pruned == PruneWindow(Get(rl, ip, <<>>), now)
         IN  IF OverLimit(pruned)
             THEN [limited |-> TRUE,
                   request_log |-> Put(rl, ip, pruned),
                   blocked_ips |-> Put(bl1, ip, now + BLOCK_TIME),
                   log |-> <<"RATE_LIMIT_BLOCK">>,
                   seen_block |-> Get(bl, ip, -1)]
             ELSE [limited |-> FALSE,
                   request_log |-> Put(rl, ip, Append(pruned, now)),
                   blocked_ips |-> bl1,
                   log |-> <<>>,
                   seen_block |-> Get(bl, ip, -1)]

-----------------------------------------------------------------------------
(* is_query_abused (src/app.py:142-146).                                    *)

PruneAbuse(log, now) == SelectSeq(log, LAMBDA t : now - t < ABUSE_WINDOW)

RecordAbuse(log, now) == Append(PruneAbuse(log, now), now)

(* Variant: the abuse test is >= instead of > .                             *)
IsAbusiveAtLimit(log) == Len(log) >= ABUSE_LIMIT

IsAbusive(log) == Len(log) > ABUSE_LIMIT

is_query_abused(query, now, qc) ==
    LET w == RecordAbuse(Get(qc, query, <<>>), now)
    IN  [abused |-> IsAbusive(w), query_counter |-> Put(qc, query, w)]

-----------------------------------------------------------------------------
(* Upstream response normalisation (src/app.py:185-204).  A raw item is a   *)
(* function from field names to text; an absent field is not in its domain. *)
(* "offers" holds a sequence of such functions.                             *)

ProviderOrigin ==
    <<"h","t","t","p","s",":","/","/","w","w","w",".",
      "g","o","o","g","l","e",".","c","o","m">>

Http == <<"h","t","t","p">>

RawLink(item) ==
    IF Get(item, "link", <<>>) # <<>> THEN item["link"]
    ELSE IF Get(item, "product_link", <<>>) # <<>> THEN item["product_link"]
    ELSE IF Get(item, "offers", <<>>) # <<>>
         THEN Get(item["offers"][1], "link", <<>>)
         ELSE <<>>

ResolveLink(item) ==
    LET link == RawLink(item)
    IN  IF link # <<>> /\ ~StartsWith(link, Http)
        THEN ProviderOrigin \o link
        ELSE link

Product(item) ==
    [title   |-> Get(item, "title", <<>>),
     price   |-> Get(item, "price", <<>>),
     rating  |-> Get(item, "rating", <<>>),
     reviews |-> Get(item, "reviews", <<>>),
     link    |-> ResolveLink(item),
     store   |-> Get(item, "source", <<>>),
     image   |-> Get(item, "thumbnail", <<>>)]

Products(items) == [i \in 1..Len(items) |-> Product(items[i])]

-----------------------------------------------------------------------------
(* get_product_prices (src/app.py:151-212).  up is what the provider does   *)
(* for this call: [ok |-> FALSE] is any exception raised inside the try     *)
(* block, [ok |-> TRUE, items |-> ...] a response with these                *)
(* shopping_results.  l1 and l2 are the seconds that pass between the three *)
(* clock reads of one call.                                                 *)

(* Variant: the key is the query as typed.                                  *)
cache_key_as_typed(query) == <<"s","e","a","r","c","h",":">> \o query

cache_key(query) == <<"s","e","a","r","c","h",":">> \o Strip(Lower(query))

(* Variant: an entry is still served at the instant it reaches CACHE_TTL.   *)
CacheFreshInclusive(c, key, now) ==
    key \in DOMAIN c /\ now - c[key].ts <= CACHE_TTL

CacheFresh(c, key, now) == key \in DOMAIN c /\ now - c[key].ts < CACHE_TTL

SeenTs(c, key) == IF key \in DOMAIN c THEN c[key].ts ELSE -1

Outcome(r, qc, c, result, log, calls, seen_ts, t1, t2, t3) ==
    [request_log |-> r.request_log, blocked_ips |-> r.blocked_ips,
     seen_block |-> r.seen_block, query_counter |-> qc,
     cache |-> c, result |-> result, log |-> log, calls |-> calls,
     fetched |-> <<>>, alias |-> <<>>,
     seen_ts |-> seen_ts, t_rl |-> t1, t_qa |-> t2, t_cache |-> t3]

(* Variant: a failed fetch stores an empty listing.                         *)
AfterFetchCachingFailure(c, key, now, up) ==
    IF up.ok
    THEN [cache |-> Put(c, key, [data |-> Products(up.items), ts |-> now]),
          result |-> Products(up.items),
          log |-> <<"SERPAPI_CALL">>]
    ELSE [cache |-> Put(c, key, [data |-> <<>>, ts |-> now]),
          result |-> <<>>,
          log |-> <<"SERPAPI_CALL", "SERPAPI_ERROR">>]

AfterFetch(c, key, now, up) ==
    IF up.ok
    THEN [cache |-> Put(c, key, [data |-> Products(up.items), ts |-> now]),
          result |-> Products(up.items),
          log |-> <<"SERPAPI_CALL">>]
    ELSE [cache |-> c, result |-> <<>>,
          log |-> <<"SERPAPI_CALL", "SERPAPI_ERROR">>]

(* Lines 162-212: the cache lookup and, on a miss, the fetch.  fetched is    *)
(* the shopping_results the provider returned to this call.  The list       *)
(* returned at line 169 or 207 is the very list object the cache entry      *)
(* holds: alias is the key of that entry, and empty when the list returned  *)
(* is a new one.                                                            *)
Serve(r, qc, query, t1, t2, t3, up) ==
    LET key == cache_key(query)
    IN  IF CacheFresh(cache, key, t3)
        THEN [Outcome(r, qc, cache, cache[key].data, <<"CACHE_HIT">>, 0,
                      SeenTs(cache, key), t1, t2, t3)
                EXCEPT !.alias = key]
        ELSE LET f == AfterFetch(cache, key, t3, up)
             IN  [Outcome(r, qc, f.cache, f.result, f.log, 1,
                          SeenTs(cache, key), t1, t2, t3)
                    EXCEPT !.fetched = IF up.ok THEN up.items ELSE <<>>,
                           !.alias = IF up.ok THEN key ELSE <<>>]

(* Variant: a flagged query is still answered when the cache holds it.      *)
get_product_prices_serving_abused(ip, query, l1, l2, up) ==
    LET t1 == clock
        r  == is_rate_limited(ip, t1, request_log, blocked_ips)
        t2 == t1 + l1
        a  == is_query_abused(query, t2, query_counter)
        t3 == t2 + l2
    IN  IF r.limited
        THEN Outcome(r, query_counter, cache, <<>>,
                     r.log \o <<"RATE_LIMIT_HIT">>, 0, -1, t1, -1, -1)
        ELSE IF a.abused /\ ~CacheFresh(cache, cache_key(query), t3)
        THEN Outcome(r, a.query_counter, cache, <<>>,
                     <<"QUERY_ABUSE">>, 0, -1, t1, t2, -1)
        ELSE Serve(r, a.query_counter, query, t1, t2, t3, up)

(* Variant: the cache is consulted before the rate limiter.                 *)
get_product_prices_cache_first(ip, query, l1, l2, up) ==
    LET t1 == clock
        r  == is_rate_limited(ip, t1, request_log, blocked_ips)
        t2 == t1 + l1
        a  == is_query_abused(query, t2, query_counter)
        t3 == t2 + l2
        r0 == [request_log |-> request_log, blocked_ips |-> blocked_ips,
               seen_block |-> -1]
    IN  IF CacheFresh(cache, cache_key(query), t1)
        THEN Serve(r0, query_counter, query, t1, t1, t1, up)
        ELSE IF r.limited
        THEN Outcome(r, query_counter, cache, <<>>,
                     r.log \o <<"RATE_LIMIT_HIT">>, 0, -1, t1, -1, -1)
        ELSE IF a.abused
        THEN Outcome(r, a.query_counter, cache, <<>>,
                     <<"QUERY_ABUSE">>, 0, -1, t1, t2, -1)
        ELSE Serve(r, a.query_counter, query, t1, t2, t3, up)

get_product_prices(ip, query, l1, l2, up) ==
    LET t1 == clock
        r  == is_rate_limited(ip, t1, request_log, blocked_ips)
        t2 == t1 + l1
        a  == is_query_abused(query, t2, query_counter)
        t3 == t2 + l2
    IN  IF r.limited
        THEN Outcome(r, query_counter, cache, <<>>,
                     r.log \o <<"RATE_LIMIT_HIT">>, 0, -1, t1, -1, -1)
        ELSE IF a.abused
        THEN Outcome(r, a.query_counter, cache, <<>>,
                     <<"QUERY_ABUSE">>, 0, -1, t1, t2, -1)
        ELSE Serve(r, a.query_counter, query, t1, t2, t3, up)

-----------------------------------------------------------------------------
(* weight_in_title (src/app.py:126-130).  The pattern built by re.escape    *)
(* and the replacement of "kg" is a sequence of tokens: a literal           *)
(* character, "ws" for \s* and "hy" for -? .  re.escape only prefixes       *)
(* characters with a backslash, so "kg" occurs in the escaped text exactly  *)
(* where it occurs in the lowered weight.                                   *)

Lit(c) == [kind |-> "lit", ch |-> c]

KgGap == << [kind |-> "ws", ch |-> ""], [kind |-> "hy", ch |-> ""],
            [kind |-> "ws", ch |-> ""], Lit("k"), Lit("g") >>

RECURSIVE WeightPattern(_)
WeightPattern(w) ==
    IF w = <<>> THEN <<>>
    ELSE IF StartsWith(w, <<"k","g">>)
         THEN KgGap \o WeightPattern(SubSeq(w, 3, Len(w)))
         ELSE <<Lit(Head(w))>> \o WeightPattern(Tail(w))

RECURSIVE MatchAt(_, _, _)
MatchAt(pat, text, pos) ==
    IF pat = <<>> THEN TRUE
    ELSE LET tok == Head(pat)
             more == pos <= Len(text)
         IN  CASE tok.kind = "lit" ->
                    more /\ text[pos] = tok.ch /\ MatchAt(Tail(pat), text, pos + 1)
               [] tok.kind = "hy" ->
                    \/ (more /\ text[pos] = "-" /\ MatchAt(Tail(pat), text, pos + 1))
                    \/ MatchAt(Tail(pat), text, pos)
               [] tok.kind = "ws" ->
                    \/ (more /\ text[pos] \in Whitespace /\ MatchAt(pat, text, pos + 1))
                    \/ MatchAt(Tail(pat), text, pos)

Search(pat, text) == \E pos \in 1..(Len(text) + 1) : MatchAt(pat, text, pos)

weight_in_title(title, weight) ==
    IF weight = <<>> THEN TRUE
    ELSE Search(WeightPattern(Lower(weight)), Lower(title))

-----------------------------------------------------------------------------
(* extract_price (src/app.py:132-137).  The text removed by the first       *)
(* replace is the three characters written in the source file, named here   *)
(* A_CIRC, LOW_QUOTE and SUPER_ONE; the rupee sign is the one character     *)
(* RUPEE.  float() is modelled on unsigned decimal numerals with at most    *)
(* two fraction digits, valued in hundredths; every other text raises and   *)
(* gives infinity.                                                          *)

CurrencyText == <<"A_CIRC", "LOW_QUOTE", "SUPER_ONE">>

DigitChars == <<"0","1","2","3","4","5","6","7","8","9">>

IsDigit(c) == \E i \in 1..Len(DigitChars) : DigitChars[i] = c

DigitValue(c) == (CHOOSE i \in 1..Len(DigitChars) : DigitChars[i] = c) - 1

RECURSIVE Replace(_, _)
Replace(s, old) ==
    IF s = <<>> THEN <<>>
    ELSE IF StartsWith(s, old)
         THEN Replace(SubSeq(s, Len(old) + 1, Len(s)), old)
         ELSE <<Head(s)>> \o Replace(Tail(s), old)

RECURSIVE DigitsValue(_)
DigitsValue(s) ==
    IF s = <<>> THEN 0
    ELSE DigitsValue(SubSeq(s, 1, Len(s) - 1)) * 10 + DigitValue(s[Len(s)])

AllDigits(s) == \A i \in 1..Len(s) : IsDigit(s[i])

Infinity == [inf |-> TRUE, v |-> 0]

Float(s) ==
    LET dots == {i \in 1..Len(s) : s[i] = "."}
    IN  IF dots = {}
        THEN IF s # <<>> /\ AllDigits(s)
             THEN [inf |-> FALSE, v |-> DigitsValue(s) * 100]
             ELSE Infinity
        ELSE LET d    == CHOOSE i \in dots : TRUE
                 int  == SubSeq(s, 1, d - 1)
                 frac == SubSeq(s, d + 1, Len(s))
             IN  IF /\ Cardinality(dots) = 1
                    /\ AllDigits(int) /\ AllDigits(frac)
                    /\ Len(int) + Len(frac) > 0
                    /\ Len(frac) <= 2
                 THEN [inf |-> FALSE,
                       v |-> DigitsValue(int) * 100
                             + DigitsValue(frac) * (IF Len(frac) = 1 THEN 10 ELSE 1)]
                 ELSE Infinity

extract_price(product) ==
    Float(Strip(Replace(Replace(product.price, CurrencyText), <<",">>)))

KeyLess(a, b) == ~a.inf /\ (b.inf \/ a.v < b.v)

(* sorted(products, key=extract_price): a stable sort.                      *)
RECURSIVE InsertSorted(_, _)
InsertSorted(sorted, p) ==
    IF sorted = <<>> THEN <<p>>
    ELSE IF KeyLess(extract_price(p), extract_price(Head(sorted)))
         THEN <<p>> \o sorted
         ELSE <<Head(sorted)>> \o InsertSorted(Tail(sorted), p)

RECURSIVE SortedByPrice(_)
SortedByPrice(products) ==
    IF products = <<>> THEN <<>>
    ELSE InsertSorted(SortedByPrice(SubSeq(products, 1, Len(products) - 1)),
                      products[Len(products)])

-----------------------------------------------------------------------------
(* Routes (src/app.py:217-272).  A handler is an operator giving what the   *)
(* request leaves behind: the four maps, and what was observable of the     *)
(* request (events logged, provider calls made, the listings returned by    *)
(* get_product_prices, the weight token of the form and the listings        *)
(* rendered).                                                               *)

Space == <<" ">>

Untouched(log) ==
    Outcome([request_log |-> request_log, blocked_ips |-> blocked_ips,
             seen_block |-> -1],
            query_counter, cache, <<>>, log, 0, -1, -1, -1, -1)

Handled(op, ip, query, valid, g, products) ==
    [op |-> op, ip |-> ip, query |-> query, valid |-> valid,
     request_log |-> g.request_log, blocked_ips |-> g.blocked_ips,
     query_counter |-> g.query_counter, cache |-> g.cache,
     result |-> g.result, products |-> products,
     log |-> g.log, calls |-> g.calls, fetched |-> g.fetched,
     weight |-> <<>>,
     seen_block |-> g.seen_block, seen_ts |-> g.seen_ts,
     t_rl |-> g.t_rl, t_qa |-> g.t_qa, t_cache |-> g.t_cache]

WeightFilter(products, weight) ==
    IF weight # <<>>
    THEN SelectSeq(products, LAMBDA p : weight_in_title(p.title, weight))
    ELSE products

(* Variant: the list is sorted in place, as products.sort(key=...) does.    *)
SortedInPlace(products) ==
    [out |-> SortedByPrice(products), arg |-> SortedByPrice(products)]

(* sorted(products, key=extract_price) returns a new list (out) and leaves  *)
(* the list it was given (arg) as it is.                                    *)
Sorted(products) == [out |-> SortedByPrice(products), arg |-> products]

(* What post-processing leaves in the cache: the list that is sorted is the *)
(* cache entry's own list when get_product_prices returned that list and no *)
(* weight filter put a new list in its place (lines 231-235).               *)
PostProcessed(g, weight, s) ==
    IF g.alias # <<>> /\ weight = <<>>
    THEN [g EXCEPT !.cache = [g.cache EXCEPT ![g.alias].data = s.arg]]
    ELSE g

index_query(form) ==
    Strip(Join(Space, <<Strip(form.product_query), Strip(form.brand_filter),
                        Strip(form.weight_filter)>>))

index(req, method, form, l1, l2, up) ==
    LET ip      == get_client_ip(req)
        weight  == Strip(form.weight_filter)
        query   == index_query(form)
    IN  IF method # "POST"
        THEN Handled("index", ip, <<>>, FALSE, Untouched(<<>>), <<>>)
        ELSE IF is_valid_query(query)
        THEN LET g == get_product_prices(ip, query, l1, l2, up)
                 s == Sorted(WeightFilter(g.result, weight))
             IN  [Handled("index", ip, query, TRUE,
                          PostProcessed(g, weight, s), s.out)
                    EXCEPT !.weight = weight]
        ELSE Handled("index", ip, query, FALSE,
                     Untouched(<<"INVALID_QUERY">>), <<>>)

category_map ==
    LET mobiles   == <<"m","o","b","i","l","e","s">>
        laptops   == <<"l","a","p","t","o","p","s">>
        fruits    == <<"f","r","u","i","t","s">>
        groceries == <<"g","r","o","c","e","r","i","e","s">>
    IN  [k \in {mobiles, laptops, fruits, groceries} |->
           CASE k = mobiles   -> <<"m","o","b","i","l","e"," ","p","h","o","n","e">>
             [] k = laptops   -> <<"l","a","p","t","o","p">>
             [] k = fruits    -> <<"f","r","e","s","h"," ","f","r","u","i","t","s">>
             [] k = groceries -> <<"g","r","o","c","e","r","y"," ","i","t","e","m","s">>]

category_query(method, category_name, search) ==
    LET base_query == Get(category_map, category_name, category_name)
    IN  IF method = "POST" THEN search \o Space \o base_query ELSE base_query

category_page(req, method, category_name, search, l1, l2, up) ==
    LET ip          == get_client_ip(req)
        final_query == category_query(method, category_name, search)
    IN  IF ~is_valid_query(final_query)
        THEN Handled("category", ip, final_query, FALSE,
                     Untouched(<<"INVALID_QUERY">>), <<>>)
        ELSE LET g == get_product_prices(ip, final_query, l1, l2, up)
                 s == Sorted(g.result)
             IN  Handled("category", ip, final_query, TRUE,
                         PostProcessed(g, <<>>, s), s.out)

health(req) ==
    Handled("health", get_client_ip(req), <<>>, FALSE, Untouched(<<>>), <<>>)

-----------------------------------------------------------------------------
(* The state machine.  One action per route; Tick lets time pass between    *)
(* requests.  The clock ends a request at the last instant the request      *)
(* read.                                                                    *)

Max(a, b) == IF a >= b THEN a ELSE b

NoRequest ==
    [op |-> "none", ip |-> "", query |-> <<>>, valid |-> FALSE,
     result |-> <<>>, products |-> <<>>, log |-> <<>>, calls |-> 0,
     fetched |-> <<>>, weight |-> <<>>,
     seen_block |-> -1, seen_ts |-> -1, t_rl |-> -1, t_qa |-> -1, t_cache |-> -1]

(* Two worker threads; a thread that is not inside is_rate_limited is Idle.  *)
Workers == {1, 2}

Idle == [pc |-> "idle", ip |-> "", now |-> -1, pruned |-> <<>>]

Init ==
    /\ clock = 0
    /\ request_log = <<>>
    /\ blocked_ips = <<>>
    /\ query_counter = <<>>
    /\ cache = <<>>
    /\ last = NoRequest
    /\ threads = [th \in Workers |-> Idle]
    /\ history = [allowed |-> <<>>, started |-> 0, overlapped |-> FALSE]

Commit(handled) ==
    \E h \in {handled} :
       /\ request_log' = h.request_log
       /\ blocked_ips' = h.blocked_ips
       /\ query_counter' = h.query_counter
       /\ cache' = h.cache
       /\ clock' = Max(clock, Max(h.t_rl, Max(h.t_qa, h.t_cache)))
       /\ last' = [op |-> h.op, ip |-> h.ip, query |-> h.query,
                   valid |-> h.valid, result |-> h.result,
                   products |-> h.products, log |-> h.log, calls |-> h.calls,
                   fetched |-> h.fetched, weight |-> h.weight,
                   seen_block |-> h.seen_block, seen_ts |-> h.seen_ts,
                   t_rl |-> h.t_rl, t_qa |-> h.t_qa, t_cache |-> h.t_cache]
       /\ UNCHANGED <<threads, history>>

Tick(instants) ==
    /\ \E t \in instants : t > clock /\ clock' = t
    /\ last' = NoRequest
    /\ UNCHANGED <<request_log, blocked_ips, query_counter, cache,
                   threads, history>>

Index(req, method, form, l1, l2, up) ==
    Commit(index(req, method, form, l1, l2, up))

Category(req, method, category_name, search, l1, l2, up) ==
    Commit(category_page(req, method, category_name, search, l1, l2, up))

Health(req) == Commit(health(req))

-----------------------------------------------------------------------------
(* Inputs.                                                                  *)

ClientA == [cf |-> "", xff |-> <<>>, remote |-> "10.0.0.1"]

ClientB == [cf |-> "", xff |-> <<"10.0.0.2", "10.0.0.9">>, remote |-> "10.0.0.1"]

ClientC == [cf |-> "10.0.0.3", xff |-> <<"10.0.0.2">>, remote |-> "10.0.0.1"]

Form(product, brand, weight) ==
    [product_query |-> product, brand_filter |-> brand, weight_filter |-> weight]

Milk == <<"m","i","l","k">>

Laptops == <<"l","a","p","t","o","p","s">>

Item(title, price) == [f \in {"title", "price"} |-> IF f = "title" THEN title ELSE price]

UpFail == [ok |-> FALSE, items |-> <<>>]

UpEmpty == [ok |-> TRUE, items |-> <<>>]

UpOne == [ok |-> TRUE, items |-> << Item(Milk, <<"2","5","0">>) >>]

Methods == {"GET", "POST"}

(* The longest abuse window a run builds: a query whose window holds this   *)
(* many timestamps is not sent again.                                       *)
MaxQueryLog == 12

Room(query, cap) == Len(Get(query_counter, query, <<>>)) < cap

-----------------------------------------------------------------------------
(* Rate limiting and blocking: requests arriving at a few instants around   *)
(* the window boundary (30 s and 60 s apart) and the end of a block (900 s  *)
(* after an instant at which one can start).                                *)

RateInstants == {30, 60, 930}

Next ==
    \/ Tick(RateInstants)
    \/ \E method \in Methods, req \in {ClientA, ClientB} :
          /\ Room(index_query(Form(Milk, <<>>, <<>>)), MaxQueryLog)
          /\ Index(req, method, Form(Milk, <<>>, <<>>), 0, 0, UpOne)
    \/ Health(ClientA)

Spec == Init /\ [][Next]_vars

-----------------------------------------------------------------------------
(* Validation: one client sending accepted and rejected query texts over    *)
(* both routes.  Each accepted text is searched at most MaxValidLog times   *)
(* per hour.                                                                *)

MaxValidLog == 1

Abc == <<"a","b","c">>

OrMilk == <<" ","o","r"," ">> \o Milk

ValidTexts ==
    { <<" ">> \o Abc \o <<" ", "\t">>,            \* length 3 once stripped
      Rep("a", 100) }                             \* length 100

InvalidTexts ==
    { <<>>,
      <<" ", " ", "\t">>,                         \* whitespace only
      <<"a","b">>,                                \* length 2
      <<" "," ","a","b"," "," ">>,               \* length 2 once stripped
      Rep("a", 101),                              \* length 101
      <<"<","S","c","R","i","P","t",">">>,
      <<"a","\"","b">>,
      <<"a","b",";","c">>,
      <<"a","-","-","b">>,
      <<"a","/","*","b">>,
      <<"a","*","/","b">>,
      Milk \o <<" ","O","r"," ">> \o Abc,
      Milk \o <<" ","a","n","d"," ">> \o Abc }

ValidInstants == {30}

(* The category route is reached with the path segment " or milk", whose    *)
(* text is accepted once stripped, with the two-letter segment "ab", and by *)
(* POST on "laptops" with a denylisted search term.                         *)
NextValid ==
    \/ Tick(ValidInstants)
    \/ \E text \in ValidTexts \cup InvalidTexts :
          /\ Room(index_query(Form(text, <<>>, <<>>)), MaxValidLog)
          /\ Index(ClientC, "POST", Form(text, <<>>, <<>>), 0, 0, UpOne)
    \/ Index(ClientC, "GET", Form(<<>>, <<>>, <<>>), 0, 0, UpOne)
    \/ \E name \in {OrMilk, <<"a","b">>} :
          /\ Room(category_query("GET", name, <<>>), MaxValidLog)
          /\ Category(ClientC, "GET", name, <<>>, 0, 0, UpOne)
    \/ Category(ClientC, "POST", Laptops, <<"<","s","c","r","i","p","t">>,
                0, 0, UpOne)
    \/ Health(ClientC)

SpecValid == Init /\ [][NextValid]_vars

-----------------------------------------------------------------------------
(* Abuse throttle: one client repeating one query at instants a window      *)
(* apart, so that more than ABUSE_LIMIT requests are admitted inside one    *)
(* hour, and again 3600 s after the second instant, when the entries of the *)
(* first two instants have left the abuse window and the cache entry has    *)
(* expired.                                                                 *)

MaxAbuseLog == 22

AbuseInstants == {60, 120, 3660}

NextAbuse ==
    \/ Tick(AbuseInstants)
    \/ \E up \in {UpOne, UpFail} :
          /\ Room(index_query(Form(Milk, <<>>, <<>>)), MaxAbuseLog)
          /\ Index(ClientB, "POST", Form(Milk, <<>>, <<>>), 0, 0, up)

SpecAbuse == Init /\ [][NextAbuse]_vars

-----------------------------------------------------------------------------
(* Result cache: one client sending two texts of one normalised query       *)
(* ("milk" by the search form, "Milk " as a category path segment) at       *)
(* instants half a CACHE_TTL apart, the provider answering with listings,   *)
(* with none, or failing; up to a second passes between the clock read of   *)
(* the abuse throttle and that of the cache lookup.  Each text is sent at   *)
(* most MaxCacheLog times per hour.                                         *)

MaxCacheLog == 2

CacheInstants == {600, 1200}

MilkPath == <<"M","i","l","k"," ">>

UpTwo ==
    [ok |-> TRUE,
     items |-> << Item(Milk \o <<" ","1"," ","K","g">>, <<"1",",","2","0","0">>),
                  Item(Milk, <<"2","5","0">>) >>]

Lags == {0, 1}

NextCache ==
    \/ Tick(CacheInstants)
    \/ \E l2 \in Lags, up \in {UpTwo, UpEmpty, UpFail} :
          /\ Room(index_query(Form(Milk, <<>>, <<>>)), MaxCacheLog)
          /\ Index(ClientA, "POST", Form(Milk, <<>>, <<>>), 0, l2, up)
    \/ \E l2 \in Lags, up \in {UpTwo, UpEmpty, UpFail} :
          /\ Room(category_query("GET", MilkPath, <<>>), MaxCacheLog)
          /\ Category(ClientA, "GET", MilkPath, <<>>, 0, l2, up)

SpecCache == Init /\ [][NextCache]_vars

-----------------------------------------------------------------------------
(* Link resolution: one client searching one query while the provider       *)
(* answers with items that carry their link in each of the places the       *)
(* fetcher looks at, or nowhere; a fetch happens again once the cache entry *)
(* has expired.  The query is sent at most MaxLinkLog times per hour.       *)

MaxLinkLog == 3

LinkInstants == {1200, 2400}

RedShoes == <<"R","e","d"," ","S","h","o","e","s">>

AbsoluteLink == <<"h","t","t","p","s",":","/","/","a",".","i","n","/","x">>

RelativeLink == <<"/","s","h","o","p","/","x">>

WithFields(item, fields) ==
    [f \in DOMAIN item \cup DOMAIN fields |->
        IF f \in DOMAIN fields THEN fields[f] ELSE item[f]]

LinkItems ==
    LET base == Item(Milk, <<"2","5","0">>)
    IN  { WithFields(base, [link |-> AbsoluteLink]),
          WithFields(base, [link |-> RelativeLink]),
          WithFields(base, [link |-> <<>>, product_link |-> RelativeLink]),
          WithFields(base, [product_link |-> AbsoluteLink,
                            offers |-> << [link |-> RelativeLink] >>]),
          WithFields(base, [offers |-> << [link |-> RelativeLink],
                                          [link |-> AbsoluteLink] >>]),
          WithFields(base, [offers |-> << [price |-> <<"9">>] >>]),
          WithFields(base, [offers |-> <<>>]),
          Item(RedShoes, <<"9","9","9">>) }

UpLinks ==
    {[ok |-> TRUE, items |-> <<item>>] : item \in LinkItems}
       \cup {[ok |-> TRUE,
              items |-> << Item(RedShoes, <<"9","9","9">>),
                           WithFields(Item(Milk, <<"2","5","0">>),
                                      [link |-> RelativeLink]) >>]}

NextLink ==
    \/ Tick(LinkInstants)
    \/ \E up \in UpLinks :
          /\ Room(index_query(Form(Milk, <<>>, <<>>)), MaxLinkLog)
          /\ Index(ClientA, "POST", Form(Milk, <<>>, <<>>), 0, 0, up)

SpecLink == Init /\ [][NextLink]_vars

-----------------------------------------------------------------------------
(* Price sort: one client searching one query while the provider answers    *)
(* with three listings in every input order, priced with the rupee sign     *)
(* (the one character RUPEE), with a thousands separator, with text that is *)
(* no number, or with plain numerals, two of them of equal value.  The      *)
(* query is sent at most MaxSortLog times per hour.                         *)

MaxSortLog == 3

SortInstants == {1200, 2400}

Orders(s) ==
    { <<s[a], s[b], s[c]>> : <<a, b, c>> \in
         {t \in (1..3) \X (1..3) \X (1..3) : Cardinality({t[1], t[2], t[3]}) = 3} }

RupeePrices ==
    << Item(<<"a">>, <<"RUPEE","2","5","0">>),
       Item(<<"b">>, <<"RUPEE","1",",","2","0","0">>),
       Item(<<"c">>, <<"a","b","c">>) >>

PlainPrices ==
    << Item(<<"d">>, <<"1",",","2","0","0">>),
       Item(<<"e">>, <<"2","5","0">>),
       Item(<<"f">>, <<" ","2","5","0",".","0">>) >>

UpPrices ==
    {[ok |-> TRUE, items |-> items] :
        items \in Orders(RupeePrices) \cup Orders(PlainPrices)}

NextSort ==
    \/ Tick(SortInstants)
    \/ \E up \in UpPrices :
          /\ Room(index_query(Form(Milk, <<>>, <<>>)), MaxSortLog)
          /\ Index(ClientA, "POST", Form(Milk, <<>>, <<>>), 0, 0, up)

SpecSort == Init /\ [][NextSort]_vars

-----------------------------------------------------------------------------
(* Weight filter: one client searching "milk" with each spelling of a       *)
(* weight token, or none, while the provider answers with titles that       *)
(* mention one kilogram, two kilograms or no weight.  Each query is sent at *)
(* most MaxWeightLog times per hour.                                        *)

MaxWeightLog == 1

AmulMilk == <<"A","m","u","l"," ","M","i","l","k">>

WeightTokens ==
    { <<>>,
      <<"1","k","g">>,
      <<"1"," ","k","g">>,
      <<"1","-","k","g">>,
      <<"1","K","G">>,
      <<"2","k","g">> }

UpWeights ==
    [ok |-> TRUE,
     items |-> << Item(AmulMilk \o <<" ","1"," ","K","g">>, <<"2","5","0">>),
                  Item(AmulMilk \o <<" ","2","-","k","g">>, <<"2","5","0">>),
                  Item(AmulMilk, <<"2","5","0">>) >>]

NextWeight ==
    \E weight \in WeightTokens :
       /\ Room(index_query(Form(Milk, <<>>, weight)), MaxWeightLog)
       /\ Index(ClientA, "POST", Form(Milk, <<>>, weight), 0, 0, UpWeights)

SpecWeight == Init /\ [][NextWeight]_vars

-----------------------------------------------------------------------------
(* is_rate_limited run by two worker threads (src/app.py:74-91), one        *)
(* statement at a time: the interpreter may switch threads between any two  *)
(* of them and the maps are shared without a lock.  A thread keeps the time *)
(* it read and the list its comprehension built until it stores it.         *)
(* history.allowed lists the instants of the calls that returned False,     *)
(* history.overlapped tells whether a call ever started while another was   *)
(* running.  The same client calls at most MaxRaceCalls times.              *)

MaxRaceCalls == 13

RaceInstants == {900}

RaceClient == "10.0.0.1"

At(th, pc) == threads[th].pc = pc

Goto(th, pc) == threads' = [threads EXCEPT ![th].pc = pc]

Return(th, allowed) ==
    /\ threads' = [threads EXCEPT ![th] = Idle]
    /\ history' = [history EXCEPT !.allowed =
                      IF allowed THEN Append(@, threads[th].now) ELSE @]

(* line 75: now = time.time()                                               *)
Begin(th) ==
    /\ At(th, "idle")
    /\ history.started < MaxRaceCalls
    /\ threads' = [threads EXCEPT ![th] =
                      [pc |-> "member", ip |-> RaceClient, now |-> clock,
                       pruned |-> <<>>]]
    /\ history' = [history EXCEPT
                      !.started = @ + 1,
                      !.overlapped = @ \/ \E o \in Workers \ {th} : ~At(o, "idle")]
    /\ UNCHANGED <<clock, request_log, blocked_ips, query_counter, cache, last>>

(* line 77: if ip in blocked_ips                                            *)
Member(th) ==
    /\ At(th, "member")
    /\ Goto(th, IF threads[th].ip \in DOMAIN blocked_ips THEN "compare" ELSE "prune")
    /\ UNCHANGED <<clock, request_log, blocked_ips, query_counter, cache, last,
                   history>>

(* lines 78-79: if now < blocked_ips[ip]: return True.  The subscript       *)
(* raises KeyError when the other thread has removed the entry meanwhile.   *)
Compare(th) ==
    /\ At(th, "compare")
    /\ IF threads[th].ip \notin DOMAIN blocked_ips
       THEN Return(th, FALSE)
       ELSE IF threads[th].now < blocked_ips[threads[th].ip]
       THEN Return(th, FALSE)
       ELSE Goto(th, "expire") /\ UNCHANGED history
    /\ UNCHANGED <<clock, request_log, blocked_ips, query_counter, cache, last>>

(* line 81: del blocked_ips[ip], KeyError when the entry is gone.           *)
Expire(th) ==
    /\ At(th, "expire")
    /\ IF threads[th].ip \in DOMAIN blocked_ips
       THEN /\ blocked_ips' = Del(blocked_ips, threads[th].ip)
            /\ Goto(th, "prune") /\ UNCHANGED history
       ELSE Return(th, FALSE) /\ UNCHANGED blocked_ips
    /\ UNCHANGED <<clock, request_log, query_counter, cache, last>>

(* line 83, right-hand side: the comprehension reads the stored list and    *)
(* builds the pruned one.                                                   *)
Prune(th) ==
    /\ At(th, "prune")
    /\ threads' = [threads EXCEPT
                      ![th].pc = "store",
                      ![th].pruned =
                          PruneWindow(Get(request_log, threads[th].ip, <<>>),
                                      threads[th].now)]
    /\ UNCHANGED <<clock, request_log, blocked_ips, query_counter, cache, last,
                   history>>

(* line 83, assignment: request_log[ip] = the list built.                   *)
Store(th) ==
    /\ At(th, "store")
    /\ request_log' = Put(request_log, threads[th].ip, threads[th].pruned)
    /\ Goto(th, "len")
    /\ UNCHANGED <<clock, blocked_ips, query_counter, cache, last, history>>

(* line 85: if len(request_log[ip]) >= RATE_LIMIT, on the list stored now.  *)
LenCheck(th) ==
    /\ At(th, "len")
    /\ Goto(th, IF OverLimit(Get(request_log, threads[th].ip, <<>>))
                THEN "block" ELSE "append")
    /\ UNCHANGED <<clock, request_log, blocked_ips, query_counter, cache, last,
                   history>>

(* lines 86-88: blocked_ips[ip] = now + BLOCK_TIME; return True             *)
Block(th) ==
    /\ At(th, "block")
    /\ blocked_ips' = Put(blocked_ips, threads[th].ip, threads[th].now + BLOCK_TIME)
    /\ Return(th, FALSE)
    /\ UNCHANGED <<clock, request_log, query_counter, cache, last>>

(* lines 90-91: request_log[ip].append(now), on the list stored now;        *)
(* return False                                                             *)
AppendNow(th) ==
    /\ At(th, "append")
    /\ request_log' = Put(request_log, threads[th].ip,
                          Append(Get(request_log, threads[th].ip, <<>>),
                                 threads[th].now))
    /\ Return(th, TRUE)
    /\ UNCHANGED <<clock, blocked_ips, query_counter, cache, last>>

NextRace ==
    \/ Tick(RaceInstants)
    \/ \E th \in Workers :
          \/ Begin(th)
          \/ Member(th)
          \/ Compare(th)
          \/ Expire(th)
          \/ Prune(th)
          \/ Store(th)
          \/ LenCheck(th)
          \/ Block(th)
          \/ AppendNow(th)

SpecRace == Init /\ [][NextRace]_vars

-----------------------------------------------------------------------------
(* Cache entries under every kind of request: one client searching "milk"   *)
(* with and without a weight token, the provider answering with two         *)
(* listings that are not in price order or failing, often enough at one     *)
(* instant to be denied and blocked, and again once the entries have        *)
(* expired.  Each query is sent at most MaxFrameLog times per hour.         *)

MaxFrameLog == 6

FrameInstants == {1200}

OneKg == <<"1","k","g">>

NextFrame ==
    \/ Tick(FrameInstants)
    \/ \E weight \in {<<>>, OneKg}, up \in {UpTwo, UpFail} :
          /\ Room(index_query(Form(Milk, <<>>, weight)), MaxFrameLog)
          /\ Index(ClientA, "POST", Form(Milk, <<>>, weight), 0, 0, up)

SpecFrame == Init /\ [][NextFrame]_vars

-----------------------------------------------------------------------------
(* Properties.  They are stated over the stored maps and the record of the  *)
(* last request with the source's constants, not with the operators above.  *)

IsSearch(l) == l.op \in {"index", "category"} /\ l.valid

Fresh(log, now, width) == SelectSeq(log, LAMBDA t : now - t < width)

Window(rl, ip) == IF ip \in DOMAIN rl THEN rl[ip] ELSE <<>>

Blocked(bl, ip, now) == ip \in DOMAIN bl /\ now < bl[ip]

Logged(l, event) == \E i \in 1..Len(l.log) : l.log[i] = event

Denied(l) ==
    /\ Logged(l, "RATE_LIMIT_HIT")
    /\ l.result = <<>> /\ l.products = <<>> /\ l.calls = 0

(* C1: a validated request of a client that has no unexpired block and      *)
(* whose window holds RATE_LIMIT or more timestamps younger than            *)
(* WINDOW_SIZE is denied, appends nothing to the window (which is left as   *)
(* its fresh part) and records blockedUntil = now + BLOCK_TIME; with fewer  *)
(* fresh timestamps and no unexpired block the request is allowed and its   *)
(* instant is appended.                                                     *)
C1_ThresholdStep ==
    IsSearch(last') =>
        LET ip    == last'.ip
            now   == last'.t_rl
            fresh == Fresh(Window(request_log, ip), now, WINDOW_SIZE)
        IN  ~Blocked(blocked_ips, ip, now) =>
              /\ Len(fresh) >= RATE_LIMIT =>
                    /\ Denied(last')
                    /\ request_log'[ip] = fresh
                    /\ ip \in DOMAIN blocked_ips'
                    /\ blocked_ips'[ip] = now + BLOCK_TIME
              /\ Len(fresh) < RATE_LIMIT =>
                    /\ ~Logged(last', "RATE_LIMIT_HIT")
                    /\ request_log'[ip] = Append(fresh, now)

C1_ThresholdDenies == [][C1_ThresholdStep]_vars

(* A request was denied at the threshold by a window that spans two         *)
(* instants, and the block it recorded ends BLOCK_TIME later.               *)
C1_Witness ==
    /\ IsSearch(last)
    /\ last.log = <<"RATE_LIMIT_BLOCK", "RATE_LIMIT_HIT">>
    /\ Len(request_log[last.ip]) = RATE_LIMIT
    /\ request_log[last.ip][1] < request_log[last.ip][RATE_LIMIT]
    /\ blocked_ips[last.ip] = last.t_rl + BLOCK_TIME

(* C2: the first request of a blocked client at a time now >= blockedUntil  *)
(* removes the block entry and is allowed; its window is then exactly       *)
(* <<now>>, every earlier timestamp being older than WINDOW_SIZE.  While a  *)
(* block entry exists, the client's window holds no timestamp later than    *)
(* the instant the block was created.                                       *)
C2_ExpiryStep ==
    IsSearch(last') =>
        LET ip  == last'.ip
            now == last'.t_rl
        IN  (ip \in DOMAIN blocked_ips /\ now >= blocked_ips[ip]) =>
              /\ ~Logged(last', "RATE_LIMIT_HIT")
              /\ ip \notin DOMAIN blocked_ips'
              /\ request_log'[ip] = <<now>>

C2_BlockEnds == [][C2_ExpiryStep]_vars

(* A request arrived exactly at blockedUntil and was allowed.               *)
C2_Witness ==
    /\ IsSearch(last)
    /\ last.seen_block >= 0
    /\ last.t_rl = last.seen_block
    /\ ~Logged(last, "RATE_LIMIT_HIT")
    /\ last.ip \notin DOMAIN blocked_ips

(* C3: a request of a client whose block has not expired is denied and      *)
(* changes none of the four maps; no step changes or removes an unexpired   *)
(* block entry, and an entry that appears or changes is set to              *)
(* now + BLOCK_TIME by the request that was denied at the threshold.        *)
C3_BlockedStep ==
    /\ IsSearch(last') /\ Blocked(blocked_ips, last'.ip, last'.t_rl) =>
          /\ Denied(last')
          /\ UNCHANGED <<request_log, blocked_ips, query_counter, cache>>
    /\ \A ip \in DOMAIN blocked_ips :
          clock < blocked_ips[ip] =>
             ip \in DOMAIN blocked_ips' /\ blocked_ips'[ip] = blocked_ips[ip]
    /\ \A ip \in DOMAIN blocked_ips' :
          (ip \notin DOMAIN blocked_ips \/ blocked_ips'[ip] # blocked_ips[ip]) =>
             /\ IsSearch(last') /\ last'.ip = ip
             /\ blocked_ips'[ip] = last'.t_rl + BLOCK_TIME

C3_BlockedNoChange == [][C3_BlockedStep]_vars

(* A request was denied by a block that another request had created         *)
(* earlier, with the client's window still full.                            *)
C3_Witness ==
    /\ IsSearch(last)
    /\ last.log = <<"RATE_LIMIT_HIT">>
    /\ last.seen_block > last.t_rl
    /\ blocked_ips[last.ip] = last.seen_block
    /\ last.t_rl > last.seen_block - BLOCK_TIME
    /\ Len(request_log[last.ip]) = RATE_LIMIT

(* C4: a request on either route whose query is empty or whitespace only,   *)
(* has stripped length below 3 or above 100, or whose stripped text         *)
(* contains a denylisted text in any letter case, gets an empty listing,    *)
(* makes no provider call, reads no clock for the limiter and changes none  *)
(* of the four maps; every other query, among them those of stripped        *)
(* length exactly 3 and exactly 100, is accepted and reaches the rate       *)
(* limiter.                                                                 *)
Denylist ==
    { <<"<","s","c","r","i","p","t">>, <<"\"">>, <<";">>, <<"-","-">>,
      <<"/","*">>, <<"*","/">>, <<" ","o","r"," ">>, <<" ","a","n","d"," ">> }

Rejected(q) ==
    LET s == Strip(q)
    IN  \/ Len(s) < 3
        \/ Len(s) > 100
        \/ \E b \in Denylist : Contains(Lower(s), b)

C4_ValidationStep ==
    last'.op \in {"index", "category"} =>
        /\ last'.valid <=> ~Rejected(last'.query)
        /\ last'.valid => last'.t_rl = clock
        /\ ~last'.valid =>
              /\ last'.result = <<>> /\ last'.products = <<>>
              /\ last'.calls = 0 /\ last'.t_rl = -1
              /\ UNCHANGED <<request_log, blocked_ips, query_counter, cache>>

C4_ValidationFirst == [][C4_ValidationStep]_vars

(* A query with a denylisted text in upper case was rejected while the      *)
(* maps held earlier requests, among them one of stripped length 100.       *)
C4_Witness ==
    /\ last.op = "index" /\ ~last.valid
    /\ last.log = <<"INVALID_QUERY">>
    /\ Contains(last.query, <<"S","c","R","i","P","t">>)
    /\ Rep("a", 100) \in DOMAIN query_counter
    /\ cache # <<>>

Admitted(l) == IsSearch(l) /\ l.t_cache >= 0

Counted(qc, q) == IF q \in DOMAIN qc THEN qc[q] ELSE <<>>

KeyOf(q) == <<"s","e","a","r","c","h",":">> \o Strip(Lower(q))

(* C5: every call of is_query_abused(q) at time now leaves the window of q  *)
(* as its timestamps younger than 3600 s followed by now, whatever it       *)
(* returns, and returns abused exactly when that window is longer than 20:  *)
(* with all calls inside one hour the first 20 are not abused, the 21st     *)
(* and every later one is, and the window keeps growing past the threshold. *)
C5_AbuseStep ==
    (IsSearch(last') /\ last'.t_qa >= 0) =>
        LET q     == last'.query
            now   == last'.t_qa
            fresh == Fresh(Counted(query_counter, q), now, 3600)
        IN  /\ query_counter'[q] = Append(fresh, now)
            /\ Logged(last', "QUERY_ABUSE") <=> Len(fresh) + 1 > 20
            /\ Len(fresh) + 1 <= 20 => Admitted(last')

C5_AbuseThreshold == [][C5_AbuseStep]_vars

(* The 22nd call inside one hour was flagged: the window holds 22           *)
(* timestamps less than 3600 s apart.                                       *)
C5_Witness ==
    /\ IsSearch(last) /\ Logged(last, "QUERY_ABUSE")
    /\ Len(query_counter[last.query]) = 22
    /\ query_counter[last.query][22] - query_counter[last.query][1] < 3600

(* C8: a request denied at the threshold, by an unexpired block or by the   *)
(* abuse throttle returns an empty listing, makes no provider call and      *)
(* leaves the cache unchanged; the provider is called only by a validated   *)
(* request that the rate limiter allowed, that was not flagged and that     *)
(* found no fresh cache entry under its key.                                *)
C8_FailClosedStep ==
    /\ last'.calls \in {0, 1}
    /\ ~IsSearch(last') => last'.calls = 0
    /\ IsSearch(last') =>
        LET ip      == last'.ip
            q       == last'.query
            now     == clock
            blocked == Blocked(blocked_ips, ip, now)
            limited == Len(Fresh(Window(request_log, ip), now, WINDOW_SIZE))
                          >= RATE_LIMIT
            abused  == Len(Fresh(Counted(query_counter, q), now, 3600)) + 1 > 20
            cached  == /\ KeyOf(q) \in DOMAIN cache
                       /\ now - cache[KeyOf(q)].ts < CACHE_TTL
        IN  /\ (blocked \/ limited \/ abused) =>
                  /\ last'.result = <<>> /\ last'.products = <<>>
                  /\ last'.calls = 0
                  /\ cache' = cache
            /\ last'.calls = 1 =>
                  ~blocked /\ ~limited /\ ~abused /\ ~cached

C8_FailClosed == [][C8_FailClosedStep]_vars

(* A flagged request got an empty listing although the cache held a fresh,  *)
(* non-empty entry for its query.                                           *)
C8_Witness ==
    /\ IsSearch(last) /\ last.log = <<"QUERY_ABUSE">>
    /\ last.result = <<>>
    /\ KeyOf(last.query) \in DOMAIN cache
    /\ cache[KeyOf(last.query)].data # <<>>
    /\ last.t_qa - cache[KeyOf(last.query)].ts < CACHE_TTL

(* C9: the rate limiter is consulted first, then the abuse throttle, then   *)
(* the cache: a rate-limited request leaves the abuse window untouched, a   *)
(* flagged request has consumed a slot of the client's window, and a        *)
(* request answered from the cache has appended its instant to the client's *)
(* window and to the query's abuse window; a client whose window holds      *)
(* RATE_LIMIT fresh timestamps is denied and blocked even when the cache    *)
(* holds a fresh entry for its query.                                       *)
C9_OrderStep ==
    IsSearch(last') =>
        LET ip     == last'.ip
            q      == last'.query
            now    == clock
            slots  == Fresh(Window(request_log, ip), now, WINDOW_SIZE)
            counts == Fresh(Counted(query_counter, q), now, 3600)
            cached == /\ KeyOf(q) \in DOMAIN cache
                      /\ now - cache[KeyOf(q)].ts < CACHE_TTL
        IN  /\ Logged(last', "RATE_LIMIT_HIT") =>
                  query_counter' = query_counter /\ cache' = cache
            /\ Logged(last', "QUERY_ABUSE") =>
                  /\ request_log'[ip] = Append(slots, now)
                  /\ cache' = cache
            /\ Logged(last', "CACHE_HIT") =>
                  /\ request_log'[ip] = Append(slots, now)
                  /\ query_counter'[q] = Append(counts, now)
            /\ last'.calls = 1 =>
                  /\ request_log'[ip] = Append(slots, now)
                  /\ query_counter'[q] = Append(counts, now)
            /\ (cached /\ ~Blocked(blocked_ips, ip, now)
                  /\ Len(slots) >= RATE_LIMIT) =>
                  /\ Denied(last')
                  /\ blocked_ips'[ip] = now + BLOCK_TIME

C9_CheckOrder == [][C9_OrderStep]_vars

(* The eleventh request of a client inside one window was denied and        *)
(* blocked while its query was freshly cached, the ten before it having     *)
(* been counted.                                                            *)
C9_Witness ==
    /\ IsSearch(last)
    /\ last.log = <<"RATE_LIMIT_BLOCK", "RATE_LIMIT_HIT">>
    /\ Len(request_log[last.ip]) = RATE_LIMIT
    /\ KeyOf(last.query) \in DOMAIN cache
    /\ last.t_rl - cache[KeyOf(last.query)].ts < CACHE_TTL
    /\ Len(query_counter[last.query]) >= RATE_LIMIT

(* C6: an admitted request whose key has an entry stored less than          *)
(* CACHE_TTL before its lookup returns exactly the stored listings, calls   *)
(* no provider and leaves the cache as it is; with an entry of age          *)
(* CACHE_TTL or more, or none, it calls the provider, and a call that       *)
(* succeeds stores its listings with the instant of the lookup.  No step    *)
(* removes an entry, so an expired entry stays until it is replaced.        *)
C6_CacheStep ==
    /\ DOMAIN cache \subseteq DOMAIN cache'
    /\ Admitted(last') =>
        LET key == KeyOf(last'.query)
            t   == last'.t_cache
        IN  IF key \in DOMAIN cache /\ t - cache[key].ts < CACHE_TTL
            THEN /\ last'.result = cache[key].data
                 /\ last'.calls = 0
                 /\ cache' = cache
            ELSE /\ last'.calls = 1
                 /\ ~Logged(last', "SERPAPI_ERROR") =>
                       cache'[key] = [data |-> last'.result, ts |-> t]

C6_CacheRoundTrip == [][C6_CacheStep]_vars

(* A request found an entry exactly CACHE_TTL old, called the provider and  *)
(* replaced it.                                                             *)
C6_Witness ==
    /\ Admitted(last)
    /\ last.seen_ts >= 0
    /\ last.t_cache - last.seen_ts = CACHE_TTL
    /\ last.calls = 1
    /\ cache[KeyOf(last.query)].ts = last.t_cache

(* C7: the only cache entry a request reads or writes is the one keyed by   *)
(* its query lowercased and trimmed, so texts that differ in letter case    *)
(* or surrounding whitespace share an entry; that normal form is unchanged  *)
(* by normalising it again.                                                 *)
Normal(q) == Strip(Lower(q))

Prefix == <<"s","e","a","r","c","h",":">>

C7_KeyStep ==
    IsSearch(last') =>
        LET n == Normal(last'.query)
        IN  /\ Normal(n) = n
            /\ \A k \in DOMAIN cache' :
                  k # Prefix \o n => k \in DOMAIN cache /\ cache'[k] = cache[k]
            /\ Logged(last', "CACHE_HIT") =>
                  /\ Prefix \o n \in DOMAIN cache
                  /\ last'.result = cache[Prefix \o n].data

C7_SharedKey == [][C7_KeyStep]_vars

(* The first request for the text "Milk " was answered from the entry that  *)
(* a request for "milk" had stored.                                         *)
C7_Witness ==
    /\ Admitted(last) /\ last.log = <<"CACHE_HIT">>
    /\ last.query = <<"M","i","l","k"," ">>
    /\ Len(query_counter[last.query]) = 1
    /\ last.result # <<>>
    /\ DOMAIN cache = {Prefix \o <<"m","i","l","k">>}

(* C10: a request whose provider call fails returns an empty listing and    *)
(* leaves the cache unchanged, so that its key still has no fresh entry;    *)
(* the cache changes only by a provider call that succeeds, which stores    *)
(* the listings it returns, empty or not.                                   *)
C10_FailureStep ==
    /\ Logged(last', "SERPAPI_ERROR") =>
          /\ last'.result = <<>> /\ last'.products = <<>>
          /\ last'.calls = 1
          /\ cache' = cache
          /\ LET key == KeyOf(last'.query)
             IN  key \in DOMAIN cache' =>
                    last'.t_cache - cache'[key].ts >= CACHE_TTL
    /\ cache' # cache =>
          /\ Admitted(last') /\ last'.calls = 1
          /\ ~Logged(last', "SERPAPI_ERROR")
          /\ cache' = [k \in DOMAIN cache \cup {KeyOf(last'.query)} |->
                         IF k = KeyOf(last'.query)
                         THEN [data |-> last'.result, ts |-> last'.t_cache]
                         ELSE cache[k]]

C10_FailureNotCached == [][C10_FailureStep]_vars

(* A provider call failed while the cache held an expired, non-empty entry  *)
(* for the query, which is still there.                                     *)
C10_Witness ==
    /\ Admitted(last) /\ Logged(last, "SERPAPI_ERROR")
    /\ last.seen_ts >= 0
    /\ KeyOf(last.query) \in DOMAIN cache
    /\ cache[KeyOf(last.query)].ts = last.seen_ts
    /\ cache[KeyOf(last.query)].data # <<>>
    /\ last.t_cache - last.seen_ts >= CACHE_TTL

(* C11 as stated: after every call of is_rate_limited(ip), whatever its     *)
(* outcome, the window of ip holds no timestamp WINDOW_SIZE old or older,   *)
(* and after every call of is_query_abused(q) the window of q holds none    *)
(* 3600 s old or older.                                                     *)
NoneOlder(log, now, width) == \A i \in 1..Len(log) : now - log[i] < width

C11_FreshAfterAnyCall ==
    IsSearch(last) =>
        /\ NoneOlder(Window(request_log, last.ip), last.t_rl, WINDOW_SIZE)
        /\ last.t_qa >= 0 =>
              NoneOlder(Counted(query_counter, last.query), last.t_qa, 3600)

(* C11, amended: a call of is_rate_limited(ip) that is not denied by an     *)
(* unexpired block (allowed, or denied at the threshold) leaves no          *)
(* timestamp WINDOW_SIZE old or older in the window of ip, while a call     *)
(* denied by an unexpired block leaves the window as it found it, stale     *)
(* timestamps included; is_query_abused is called exactly by the requests   *)
(* the rate limiter allowed and leaves no timestamp 3600 s old or older in  *)
(* the window of its query.                                                 *)
C11_PruneStep ==
    IsSearch(last') =>
        LET ip  == last'.ip
            now == last'.t_rl
        IN  /\ IF Blocked(blocked_ips, ip, now)
               THEN Window(request_log', ip) = Window(request_log, ip)
               ELSE NoneOlder(Window(request_log', ip), now, WINDOW_SIZE)
            /\ last'.t_qa >= 0 <=> ~Logged(last', "RATE_LIMIT_HIT")
            /\ last'.t_qa >= 0 =>
                  NoneOlder(Counted(query_counter', last'.query),
                            last'.t_qa, 3600)

C11_FreshUnlessBlocked == [][C11_PruneStep]_vars

(* The only client's request at 3660 was allowed and its provider call      *)
(* failed: the cache entry stored by its request at 0 is still there, and   *)
(* neither its window nor the abuse window of its query holds that instant  *)
(* any more.                                                                *)
C11_Witness ==
    /\ IsSearch(last) /\ Logged(last, "SERPAPI_ERROR")
    /\ last.t_rl = 3660
    /\ KeyOf(last.query) \in DOMAIN cache
    /\ cache[KeyOf(last.query)].ts = 0
    /\ request_log[last.ip] = <<3660>>
    /\ query_counter[last.query][1] > 60
    /\ Len(query_counter[last.query]) > 1

(* C12: the abuse throttle is keyed by the query lowercased and trimmed and  *)
(* not by the client: every request that reaches is_query_abused, whoever   *)
(* sends it, is recorded in the one window of its normalised query, so      *)
(* texts that differ only in letter case or surrounding whitespace count    *)
(* toward the same threshold, and no other window changes.                  *)
C12_KeyStep ==
    (IsSearch(last') /\ last'.t_qa >= 0) =>
        LET n   == Normal(last'.query)
            now == last'.t_qa
        IN  /\ n \in DOMAIN query_counter'
            /\ query_counter'[n] =
                  Append(Fresh(Counted(query_counter, n), now, 3600), now)
            /\ \A k \in DOMAIN query_counter' \ {n} :
                  k \in DOMAIN query_counter
                     /\ query_counter'[k] = query_counter[k]

C12_NormalizedAbuseKey == [][C12_KeyStep]_vars

(* C13: every listing the fetcher produces has a link that is an absolute   *)
(* URL: the first non-empty of the item's link, product_link and first      *)
(* offer's link, taken as it is when absolute and prefixed with the         *)
(* provider origin when it starts with "/"; an item with none of them gets  *)
(* a search URL holding its title with "+" for each space.  No listing has  *)
(* an empty link.                                                           *)
FieldOf(item, f) == IF f \in DOMAIN item THEN item[f] ELSE <<>>

FirstLink(item) ==
    IF FieldOf(item, "link") # <<>> THEN item["link"]
    ELSE IF FieldOf(item, "product_link") # <<>> THEN item["product_link"]
    ELSE IF FieldOf(item, "offers") # <<>>
         THEN FieldOf(item["offers"][1], "link")
         ELSE <<>>

Plus(title) == [i \in 1..Len(title) |-> IF title[i] = " " THEN "+" ELSE title[i]]

C13_LinkOf(item, link) ==
    LET first == FirstLink(item)
    IN  /\ link # <<>>
        /\ StartsWith(link, <<"h","t","t","p">>)
        /\ StartsWith(first, <<"h","t","t","p">>) => link = first
        /\ StartsWith(first, <<"/">>) =>
              link = <<"h","t","t","p","s",":","/","/","w","w","w",".",
                       "g","o","o","g","l","e",".","c","o","m">> \o first
        /\ first = <<>> => Contains(link, Plus(FieldOf(item, "title")))

C13_LinksAbsolute ==
    (IsSearch(last) /\ last.calls = 1 /\ ~Logged(last, "SERPAPI_ERROR")) =>
        /\ Len(last.result) = Len(last.fetched)
        /\ \A i \in 1..Len(last.result) :
              C13_LinkOf(last.fetched[i], last.result[i].link)

(* C14: the listings rendered are the listings returned, in ascending order *)
(* of the number read from the price once the rupee sign and the thousands  *)
(* separators are removed; a price that is no number counts as infinity and *)
(* comes last, and listings of equal number keep the order they came in.    *)
(* Prices RUPEE 250, RUPEE 1,200 and abc come out in that order whatever    *)
(* order they came in.                                                      *)
PriceNumber(price) ==
    Float(Strip(Replace(Replace(price, <<"RUPEE">>), <<",">>)))

Before(a, b) == ~a.inf /\ (b.inf \/ a.v < b.v)

PlaceIn(seq, x) == CHOOSE k \in 1..Len(seq) : seq[k] = x

C14_SortedByNumber ==
    (IsSearch(last) /\ ~Logged(last, "RATE_LIMIT_HIT")
                    /\ ~Logged(last, "QUERY_ABUSE")) =>
        LET in  == last.result
            out == last.products
        IN  /\ Len(out) = Len(in)
            /\ \A i \in 1..Len(in) : \E k \in 1..Len(out) : out[k] = in[i]
            /\ \A i \in 1..Len(out) : \A j \in (i + 1)..Len(out) :
                  /\ ~Before(PriceNumber(out[j].price), PriceNumber(out[i].price))
                  /\ ~Before(PriceNumber(out[i].price), PriceNumber(out[j].price))
                        => PlaceIn(in, out[i]) < PlaceIn(in, out[j])

(* C15: with a weight token, the listings rendered by the search form are   *)
(* exactly the returned listings whose title, in lower case, contains the   *)
(* token written with any spacing or hyphenation ("1kg", "1 kg" and "1-kg"  *)
(* all select "Amul Milk 1 Kg", "2kg" does not); without a token every      *)
(* listing is rendered.                                                     *)
Squeeze(s) == SelectSeq(s, LAMBDA c : c \notin {" ", "-"})

Mentions(title, token) ==
    \E i \in 1..Len(title), j \in 1..Len(title) :
        /\ i <= j
        /\ Squeeze(SubSeq(Lower(title), i, j)) = Squeeze(Lower(token))

C15_WeightVariants ==
    (last.op = "index" /\ Admitted(last)) =>
        last.products =
            IF last.weight = <<>> THEN last.result
            ELSE SelectSeq(last.result,
                           LAMBDA p : Mentions(p.title, last.weight))

(* C16: is_rate_limited takes no lock.  As long as no call starts while     *)
(* another is running, no more than RATE_LIMIT calls of the client are      *)
(* allowed within WINDOW_SIZE seconds and its stored window holds at most   *)
(* RATE_LIMIT timestamps; with the statements of two calls interleaved both *)
(* bounds are exceeded.                                                     *)
AllowedWithin(allowed, width) ==
    \E i \in 1..Len(allowed) :
        Cardinality({j \in 1..Len(allowed) :
                        allowed[j] >= allowed[i] /\ allowed[j] - allowed[i] < width})
           > RATE_LIMIT

C16_RaceNeedsOverlap ==
    ~history.overlapped =>
        /\ ~AllowedWithin(history.allowed, WINDOW_SIZE)
        /\ \A ip \in DOMAIN request_log : Len(request_log[ip]) <= RATE_LIMIT

(* Before any time has passed the client's stored window holds more than    *)
(* RATE_LIMIT timestamps, which takes two calls that both passed the length *)
(* check before either appended, and more calls were allowed than the       *)
(* window holds, which takes an append lost under a pruned list stored by   *)
(* the other call.                                                          *)
C16_Witness ==
    /\ clock = 0
    /\ "10.0.0.1" \in DOMAIN request_log
    /\ Len(request_log["10.0.0.1"]) > RATE_LIMIT
    /\ Len(history.allowed) > Len(request_log["10.0.0.1"])
    /\ AllowedWithin(history.allowed, WINDOW_SIZE)

(* C17: a cache entry, once stored, keeps its listings, their order and its *)
(* storedAt until a provider call for the same key succeeds and replaces    *)
(* the whole entry with what that call returned and the instant of its      *)
(* lookup.  A request answered from the cache, a denied request and a       *)
(* failed provider call leave the whole cache as it is, also when the       *)
(* listings returned are filtered by weight and sorted by price for         *)
(* rendering; an entry is served only while younger than CACHE_TTL.         *)
C17_EntryStep ==
    /\ \A k \in DOMAIN cache \cup DOMAIN cache' :
          (k \notin DOMAIN cache' \/ k \notin DOMAIN cache
              \/ cache'[k] # cache[k]) =>
             /\ IsSearch(last') /\ last'.calls = 1
             /\ ~Logged(last', "SERPAPI_ERROR")
             /\ k = KeyOf(last'.query)
             /\ k \in DOMAIN cache'
             /\ cache'[k] = [data |-> last'.result, ts |-> last'.t_cache]
    /\ (\/ Logged(last', "CACHE_HIT") \/ Logged(last', "RATE_LIMIT_HIT")
        \/ Logged(last', "QUERY_ABUSE") \/ Logged(last', "SERPAPI_ERROR")) =>
             cache' = cache
    /\ Logged(last', "CACHE_HIT") =>
          /\ last'.result = cache[KeyOf(last'.query)].data
          /\ last'.t_cache - cache'[KeyOf(last'.query)].ts < CACHE_TTL

C17_EntriesImmutable == [][C17_EntryStep]_vars

(* A request without weight token was answered from the cache and rendered  *)
(* in price order, which is not the order of the stored listings; the entry *)
(* still holds them as they were returned.                                  *)
C17_Witness ==
    /\ IsSearch(last) /\ Logged(last, "CACHE_HIT")
    /\ last.weight = <<>>
    /\ last.products # last.result
    /\ Len(last.products) = Len(last.result)
    /\ cache[KeyOf(last.query)].data = last.result

(* C18: with requests handled one at a time, a step that appends a          *)
(* timestamp to a client's window ends with that client absent from the     *)
(* block list; so a step that creates a block entry for a client, or that   *)
(* keeps one, appends nothing to that client's window.                      *)
Times(log, t) == Cardinality({i \in 1..Len(log) : log[i] = t})

AppendedTo(ip) ==
    /\ Window(request_log', ip) # Window(request_log, ip)
    /\ \E i \in 1..Len(Window(request_log', ip)) :
          Times(Window(request_log', ip), Window(request_log', ip)[i])
             > Times(Window(request_log, ip), Window(request_log', ip)[i])

C18_CountStep ==
    /\ \A ip \in DOMAIN request_log' :
          AppendedTo(ip) =>
             /\ ip \notin DOMAIN blocked_ips'
             /\ IsSearch(last') /\ last'.ip = ip
             /\ ~Logged(last', "RATE_LIMIT_HIT")
    /\ \A ip \in DOMAIN blocked_ips' : ~AppendedTo(ip)
    /\ (IsSearch(last') /\ ~Logged(last', "RATE_LIMIT_HIT")) =>
          AppendedTo(last'.ip)

C18_BlockedNotCounted == [][C18_CountStep]_vars

(* A client's request some time after its block had ended was allowed: its  *)
(* instant is in the window and the client is no longer in the block list.  *)
C18_Witness ==
    /\ IsSearch(last) /\ ~Logged(last, "RATE_LIMIT_HIT")
    /\ last.seen_block >= 0
    /\ last.t_rl > last.seen_block
    /\ request_log[last.ip] = <<last.t_rl>>
    /\ last.ip \notin DOMAIN blocked_ips

(* C19: with requests handled one at a time, no more than RATE_LIMIT calls  *)
(* of a client are allowed within any WINDOW_SIZE seconds (instants t with  *)
(* first <= t < first + WINDOW_SIZE), over blocks and their expiry, and no  *)
(* stored window ever holds more than RATE_LIMIT timestamps.  The calls the *)
(* rate limiter allowed to the only client are those recorded in the abuse  *)
(* window of its query, which keeps them for an hour.                       *)
C19_BoundStep ==
    /\ \A ip \in DOMAIN request_log' : Len(request_log'[ip]) <= RATE_LIMIT
    /\ IsSearch(last') =>
          LET q    == last'.query
              seen == Counted(query_counter', q)
          IN  /\ ~Logged(last', "RATE_LIMIT_HIT") <=>
                    /\ seen = Append(Fresh(Counted(query_counter, q),
                                           last'.t_rl, 3600), last'.t_rl)
                    /\ query_counter' # query_counter
              /\ ~AllowedWithin(seen, WINDOW_SIZE)

C20_IsolationStep ==
    /\ \A ip \in DOMAIN request_log \cup DOMAIN request_log'
                   \cup DOMAIN blocked_ips \cup DOMAIN blocked_ips' :
          (~IsSearch(last') \/ ip # last'.ip) =>
             /\ ip \in DOMAIN request_log <=> ip \in DOMAIN request_log'
             /\ ip \in DOMAIN request_log => request_log'[ip] = request_log[ip]
             /\ ip \in DOMAIN blocked_ips <=> ip \in DOMAIN blocked_ips'
             /\ ip \in DOMAIN blocked_ips => blocked_ips'[ip] = blocked_ips[ip]
    /\ IsSearch(last') =>
          (Logged(last', "RATE_LIMIT_HIT") <=>
              \/ Blocked(blocked_ips, last'.ip, last'.t_rl)
              \/ Len(Fresh(Window(request_log, last'.ip), last'.t_rl,
                           WINDOW_SIZE)) >= RATE_LIMIT)

C20_PerClient == [][C20_IsolationStep]_vars

(* A client was allowed while another client was serving a block with its   *)
(* window full.                                                             *)
C20_Witness ==
    /\ IsSearch(last) /\ ~Logged(last, "RATE_LIMIT_HIT")
    /\ \E other \in DOMAIN blocked_ips :
          /\ other # last.ip
          /\ last.t_rl < blocked_ips[other]
          /\ Len(request_log[other]) = RATE_LIMIT

====
